---- MODULE Spec2Model ----
(***************************************************************************)
(* Model of MetricsDataIO (src/src/AGI/io/MetricsDataIO.py) as it is used  *)
(* by the profile driver (src/src/AGI.py): several independent processes   *)
(* construct a MetricsDataIO on the same dbFile and then dump their        *)
(* epochs.  Shared state is the filesystem: the database file, the         *)
(* ".metadata" sidecar and the OS lock taken on the ".lock" sidecar.       *)
(***************************************************************************)
EXTENDS Integers, Sequences, FiniteSets, TLC

\* ------------------------------------------------------------------ bounds
NProcs == 2
MaxEpochs == 2

\* ------------------------------------------------------- program constants
DefaultTimeout == 900
FileLockTimeout == -1

Procs == 1..NProcs
NoProc == 0
Timeouts == {0, DefaultTimeout}
PctValues == {100}

NoErr == ""
ReadOnlyMsg == "MetricsDataIO initialized in read-only mode!"
LockTimeoutMsg == "Timeout"
EOFErrorMsg == "EOFError"
OSErrorMsg == "OSError"

\* f"Output file {self.dbFile} already exists! ..."
ConflictMsg(path) ==
    "Output file " \o path \o " already exists! Please specify a different output file or set -f flag."

DbPath == "db.sqlite"

\* ---------------------------------------------------------- python dicts
EmptyDict == [k \in {} |-> FALSE]

Put(d, k, v) == [x \in (DOMAIN d) \cup {k} |-> IF x = k THEN v ELSE d[x]]

\* self.metadata.get('dbError', False) used as a condition
GetDbError(d) == "dbError" \in DOMAIN d /\ d["dbError"] # NoErr

\* self.metadata.get('dbExists', False)
GetDbExists(d) == "dbExists" \in DOMAIN d /\ d["dbExists"]

\* ------------------------------------------------------------- the files
AbsentDb == [exists |-> FALSE, tables |-> EmptyDict]
AbsentMeta == [state |-> "absent", content |-> EmptyDict]
EmptyMeta == [state |-> "empty", content |-> EmptyDict]
Pickled(d) == [state |-> "pickled", content |-> d]

\* ------------------------------------------------------------ dumpEpoch
RECURSIVE Gcd(_, _)
Gcd(a, b) == IF b = 0 THEN a ELSE Gcd(b, a % b)

\* astype(float) / 100.0, the float kept as a reduced fraction
\* the column left as the percentage it was collected as
Div100Unscaled(v) == [num |-> v, den |-> 1]

Div100(v) == LET g == Gcd(100, v) IN [num |-> v \div g, den |-> 100 \div g]

NormalizeRow(row) ==
    IF "DEV_GPU_UTIL" \in DOMAIN row
    THEN [c \in DOMAIN row |-> IF c = "DEV_GPU_UTIL" THEN Div100(row[c]) ELSE row[c]]
    ELSE row

NormalizeTable(rows) == [i \in DOMAIN rows |-> NormalizeRow(rows[i])]

\* to_sql with if_exists='append': the rows are added to a table that exists
WriteEpochAppend(tables, data, epoch) ==
    LET new == {t \o epoch : t \in DOMAIN data}
        src(n) == CHOOSE t \in DOMAIN data : t \o epoch = n
    IN  [n \in (DOMAIN tables) \cup new |->
            IF n \in new
            THEN IF n \in DOMAIN tables
                 THEN tables[n] \o NormalizeTable(data[src(n)])
                 ELSE NormalizeTable(data[src(n)])
            ELSE tables[n]]

\* df.to_sql(tableName + epoch, conn, if_exists='replace') for every table
WriteEpoch(tables, data, epoch) ==
    LET new == {t \o epoch : t \in DOMAIN data}
        src(n) == CHOOSE t \in DOMAIN data : t \o epoch = n
    IN  [n \in (DOMAIN tables) \cup new |->
            IF n \in new THEN NormalizeTable(data[src(n)]) ELSE tables[n]]

\* the (epoch, suffix) pairs dump hands to dumpEpoch
RECURSIVE Enumerate(_, _)
Enumerate(data, i) ==
    IF i >= Len(data) THEN <<>>
    ELSE <<[data |-> data[i + 1], epoch |-> "_epoch:" \o ToString(i)]>>
         \o Enumerate(data, i + 1)

\* dump without the single-epoch case: every epoch gets a suffix
DumpCallsAlwaysSuffixed(data) == Enumerate(data, 0)

\* dump: nothing for an empty list, one unsuffixed dumpEpoch for a single
\* epoch, one suffixed dumpEpoch per epoch otherwise
DumpCalls(data) ==
    IF Len(data) = 0 THEN <<>>
    ELSE IF Len(data) = 1 THEN <<[data |-> data[1], epoch |-> ""]>>
    ELSE Enumerate(data, 0)

\* what one rank collects
Epochs(p) == {[gpu |-> <<[gpuId |-> p, DEV_GPU_UTIL |-> v]>>] : v \in PctValues}
EpochLists(p) == UNION {[1..k -> Epochs(p)] : k \in 0..MaxEpochs}

\* --------------------------------------------------------------- FileLock
\* a release that drops the OS lock even when the acquire was a nested one
HolderNotReentrant(p, counter) == NoProc

\* release(): the OS lock is dropped only when the counter is back to 0
Holder(p, counter) == IF counter = 0 THEN NoProc ELSE p

\* the filesystem: the database file, the metadata file, the holder of the
\* OS lock on the lock file
VARIABLES dbFile, metadataFile, lockHolder
\* each process: where it is, the fields of its MetricsDataIO object (timeout
\* is the one value every process of the run passes), the counter of its
\* FileLock, where dumpMetadata returns to, the dumpEpoch calls dump has yet
\* to make, the exception it raised last, the calls made on a read-only object
\* (for the one user of dump and load: its dump calls)
VARIABLES pc, readOnly, forceOverwrite, timeout, metadata, lockCounter,
          ret, todo, err, ncalls
\* what happened so far: the file existed at the start, the number of
\* os.remove calls, who tested os.path.exists(dbFile), who persisted
\* dbExists = True
VARIABLES preExisting, nRemoved, fsChecked, claimers
\* one user of dump and load: the argument of its dump call, the file when
\* the call started, the file after the first of two equal calls, what load
\* returned
VARIABLES given, start, once, loaded
\* the profile driver of each process: which of the two drivers runs, how
\* far it is, the state of its GPUMetricsProfiler object
VARIABLES driver, stage, profiler

session == <<given, start, once, loaded, driver, stage, profiler>>

vars == <<dbFile, metadataFile, lockHolder,
          pc, readOnly, forceOverwrite, timeout, metadata, lockCounter,
          ret, todo, err, ncalls,
          preExisting, nRemoved, fsChecked, claimers,
          given, start, once, loaded, driver, stage, profiler>>

shared == <<dbFile, metadataFile, lockHolder>>
history == <<preExisting, nRemoved, fsChecked, claimers, session>>

PreExistingTables == [old |-> <<[gpuId |-> 0, DEV_GPU_UTIL |-> [num |-> 1, den |-> 2]]>>]

Init ==
    /\ dbFile \in {AbsentDb, [exists |-> TRUE, tables |-> PreExistingTables]}
    /\ metadataFile = AbsentMeta
    /\ lockHolder = NoProc
    /\ pc = [p \in Procs |-> "Unopened"]
    /\ readOnly = [p \in Procs |-> TRUE]
    /\ forceOverwrite = [p \in Procs |-> FALSE]
    /\ timeout \in Timeouts
    /\ metadata = [p \in Procs |-> EmptyDict]
    /\ lockCounter = [p \in Procs |-> 0]
    /\ ret = [p \in Procs |-> "none"]
    /\ todo = [p \in Procs |-> <<>>]
    /\ err = [p \in Procs |-> NoErr]
    /\ ncalls = [p \in Procs |-> 0]
    /\ preExisting = dbFile.exists
    /\ nRemoved = 0
    /\ fsChecked = {}
    /\ claimers = {}
    /\ given = <<>>
    /\ start = dbFile
    /\ once = AbsentDb
    /\ loaded = EmptyDict
    /\ driver = "function"
    /\ stage = [p \in Procs |-> "storage"]
    /\ profiler = [p \in Procs |-> "none"]

\* an exception that leaves the with block without releasing the lock
RaiseFromKeepsLock(p, msg) ==
    /\ pc' = [pc EXCEPT ![p] = "Rejected"]
    /\ err' = [err EXCEPT ![p] = msg]
    /\ UNCHANGED <<lockCounter, lockHolder>>

\* an exception leaves every enclosing "with self.lock.acquire()" block
RaiseFrom(p, msg) ==
    /\ pc' = [pc EXCEPT ![p] = "Rejected"]
    /\ err' = [err EXCEPT ![p] = msg]
    /\ lockCounter' = [lockCounter EXCEPT ![p] = 0]
    /\ lockHolder' = IF lockHolder = p THEN Holder(p, 0) ELSE lockHolder

\* normal end of the outer "with self.lock.acquire()" block
LeaveWith(p) ==
    /\ lockCounter' = [lockCounter EXCEPT ![p] = @ - 1]
    /\ lockHolder' = Holder(p, lockCounter[p] - 1)

\* checkOutfileExists without its readOnly test: every object validates
ConstructAlwaysValidates(p, ro, fo) ==
    /\ pc[p] = "Unopened"
    /\ readOnly' = [readOnly EXCEPT ![p] = ro]
    /\ forceOverwrite' = [forceOverwrite EXCEPT ![p] = fo]
    /\ metadata' = [metadata EXCEPT ![p] = EmptyDict]
    /\ pc' = [pc EXCEPT ![p] = "Acquire"]
    /\ UNCHANGED <<shared, timeout, lockCounter, ret, todo, err, ncalls, history>>

\* __init__: store the parameters, then checkOutfileExists up to the lock
Construct(p, ro, fo) ==
    /\ pc[p] = "Unopened"
    /\ readOnly' = [readOnly EXCEPT ![p] = ro]
    /\ forceOverwrite' = [forceOverwrite EXCEPT ![p] = fo]
    /\ metadata' = [metadata EXCEPT ![p] = EmptyDict]
    /\ pc' = [pc EXCEPT ![p] = IF ro THEN "Ready" ELSE "Acquire"]
    /\ UNCHANGED <<shared, timeout, lockCounter, ret, todo, err, ncalls, history>>

\* loadMetadata without its existence test: the record is always created anew
AcquireAlwaysCreates(p) ==
    /\ pc[p] \in {"Acquire", "Waiting"}
    /\ IF lockHolder = NoProc
       THEN /\ lockHolder' = p
            /\ lockCounter' = [lockCounter EXCEPT ![p] = 1]
            /\ pc' = [pc EXCEPT ![p] = "DumpMetadata"]
            /\ ret' = [ret EXCEPT ![p] = "ReadMetadata"]
            /\ UNCHANGED err
       ELSE \/ /\ FileLockTimeout >= 0
               /\ FileLockTimeout = 0 \/ pc[p] = "Waiting"
               /\ RaiseFrom(p, LockTimeoutMsg)
               /\ UNCHANGED ret
            \/ /\ FileLockTimeout # 0
               /\ pc[p] = "Acquire"
               /\ pc' = [pc EXCEPT ![p] = "Waiting"]
               /\ UNCHANGED <<lockHolder, lockCounter, err, ret>>
    /\ UNCHANGED <<dbFile, metadataFile, readOnly, forceOverwrite, timeout, metadata,
                   todo, ncalls, history>>

\* with self.lock.acquire(): one poll of the FileLock, which is created and
\* acquired without a timeout argument.  A poll that finds the lock held
\* gives up only under a timeout that is not negative (at once when it is 0,
\* after some wait otherwise); else the process sleeps and polls again.
\* With the lock taken, loadMetadata tests whether the metadata file exists
\* and creates it with dumpMetadata when it does not
Acquire(p) ==
    /\ pc[p] \in {"Acquire", "Waiting"}
    /\ IF lockHolder = NoProc
       THEN /\ lockHolder' = p
            /\ lockCounter' = [lockCounter EXCEPT ![p] = 1]
            /\ IF metadataFile.state = "absent"
               THEN /\ pc' = [pc EXCEPT ![p] = "DumpMetadata"]
                    /\ ret' = [ret EXCEPT ![p] = "ReadMetadata"]
               ELSE /\ pc' = [pc EXCEPT ![p] = "ReadMetadata"]
                    /\ UNCHANGED ret
            /\ UNCHANGED err
       ELSE \/ /\ FileLockTimeout >= 0
               /\ FileLockTimeout = 0 \/ pc[p] = "Waiting"
               /\ RaiseFrom(p, LockTimeoutMsg)
               /\ UNCHANGED ret
            \/ /\ FileLockTimeout # 0
               /\ pc[p] = "Acquire"
               /\ pc' = [pc EXCEPT ![p] = "Waiting"]
               /\ UNCHANGED <<lockHolder, lockCounter, err, ret>>
    /\ UNCHANGED <<dbFile, metadataFile, readOnly, forceOverwrite, timeout, metadata,
                   todo, ncalls, history>>

\* dumpMetadata, first half: nested acquire and open(metadataFile, 'wb'),
\* which creates or truncates the file
DumpMetadata(p) ==
    /\ pc[p] = "DumpMetadata"
    /\ lockHolder \in {NoProc, p}
    /\ lockHolder' = p
    /\ lockCounter' = [lockCounter EXCEPT ![p] = @ + 1]
    /\ metadataFile' = EmptyMeta
    /\ pc' = [pc EXCEPT ![p] = "PickleDump"]
    /\ UNCHANGED <<dbFile, readOnly, forceOverwrite, timeout, metadata, ret, todo, err,
                   ncalls, history>>

\* dumpMetadata, second half: pickle.dump, close, release of the nested acquire
PickleDump(p) ==
    /\ pc[p] = "PickleDump"
    /\ metadataFile' = Pickled(metadata[p])
    /\ lockCounter' = [lockCounter EXCEPT ![p] = @ - 1]
    /\ lockHolder' = Holder(p, lockCounter[p] - 1)
    /\ claimers' = IF GetDbExists(metadata[p]) THEN claimers \cup {p} ELSE claimers
    /\ pc' = [pc EXCEPT ![p] = ret[p]]
    /\ UNCHANGED <<dbFile, readOnly, forceOverwrite, timeout, metadata, ret, todo, err,
                   ncalls, preExisting, nRemoved, fsChecked, session>>

\* checkOutfileExists without the test of the stored dbError
ReadMetadataNoErrorTest(p) ==
    /\ pc[p] = "ReadMetadata"
    /\ IF metadataFile.state # "pickled"
       THEN /\ RaiseFrom(p, IF metadataFile.state = "empty" THEN EOFErrorMsg ELSE OSErrorMsg)
            /\ UNCHANGED metadata
       ELSE /\ metadata' = [metadata EXCEPT ![p] = metadataFile.content]
            /\ IF ~GetDbExists(metadataFile.content)
               THEN /\ pc' = [pc EXCEPT ![p] = "PathExists"]
                    /\ UNCHANGED <<lockHolder, lockCounter, err>>
               ELSE /\ LeaveWith(p)
                    /\ pc' = [pc EXCEPT ![p] = "Ready"]
                    /\ UNCHANGED err
    /\ UNCHANGED <<dbFile, metadataFile, readOnly, forceOverwrite, timeout, ret, todo,
                   ncalls, history>>

\* checkOutfileExists without the test of the stored dbExists
ReadMetadataNoExistsTest(p) ==
    /\ pc[p] = "ReadMetadata"
    /\ IF metadataFile.state # "pickled"
       THEN /\ RaiseFrom(p, IF metadataFile.state = "empty" THEN EOFErrorMsg ELSE OSErrorMsg)
            /\ UNCHANGED metadata
       ELSE /\ metadata' = [metadata EXCEPT ![p] = metadataFile.content]
            /\ IF GetDbError(metadataFile.content)
               THEN RaiseFrom(p, metadataFile.content["dbError"])
               ELSE /\ pc' = [pc EXCEPT ![p] = "PathExists"]
                    /\ UNCHANGED <<lockHolder, lockCounter, err>>
    /\ UNCHANGED <<dbFile, metadataFile, readOnly, forceOverwrite, timeout, ret, todo,
                   ncalls, history>>

\* loadMetadata, the pickle.load of the metadata file, then the dbError test
\* and the dbExists test of checkOutfileExists on what was loaded
ReadMetadata(p) ==
    /\ pc[p] = "ReadMetadata"
    /\ IF metadataFile.state # "pickled"
       THEN /\ RaiseFrom(p, IF metadataFile.state = "empty" THEN EOFErrorMsg ELSE OSErrorMsg)
            /\ UNCHANGED metadata
       ELSE /\ metadata' = [metadata EXCEPT ![p] = metadataFile.content]
            /\ IF GetDbError(metadataFile.content)
               THEN RaiseFrom(p, metadataFile.content["dbError"])
               ELSE IF ~GetDbExists(metadataFile.content)
               THEN /\ pc' = [pc EXCEPT ![p] = "PathExists"]
                    /\ UNCHANGED <<lockHolder, lockCounter, err>>
               ELSE /\ LeaveWith(p)
                    /\ pc' = [pc EXCEPT ![p] = "Ready"]
                    /\ UNCHANGED err
    /\ UNCHANGED <<dbFile, metadataFile, readOnly, forceOverwrite, timeout, ret, todo,
                   ncalls, history>>

\* the existence test without the forceOverwrite test: an existing file is
\* always removed
PathExistsOverwrites(p) ==
    /\ pc[p] = "PathExists"
    /\ fsChecked' = fsChecked \cup {p}
    /\ IF dbFile.exists
       THEN /\ pc' = [pc EXCEPT ![p] = "Remove"]
            /\ UNCHANGED <<lockHolder, lockCounter>>
       ELSE /\ LeaveWith(p)
            /\ pc' = [pc EXCEPT ![p] = "Ready"]
    /\ UNCHANGED <<dbFile, metadataFile, readOnly, forceOverwrite, timeout, metadata, ret,
                   todo, err, ncalls, preExisting, nRemoved, claimers, session>>

\* the conflict branch raising without dumping the metadata first
PathExistsNoCommit(p) ==
    /\ pc[p] = "PathExists"
    /\ fsChecked' = fsChecked \cup {p}
    /\ IF dbFile.exists
       THEN IF ~forceOverwrite[p]
            THEN /\ metadata' = [metadata EXCEPT ![p] = Put(@, "dbError", ConflictMsg(DbPath))]
                 /\ pc' = [pc EXCEPT ![p] = "Raise"]
                 /\ ret' = [ret EXCEPT ![p] = "Raise"]
                 /\ UNCHANGED <<lockHolder, lockCounter>>
            ELSE /\ pc' = [pc EXCEPT ![p] = "Remove"]
                 /\ UNCHANGED <<metadata, ret, lockHolder, lockCounter>>
       ELSE /\ LeaveWith(p)
            /\ pc' = [pc EXCEPT ![p] = "Ready"]
            /\ UNCHANGED <<metadata, ret>>
    /\ UNCHANGED <<dbFile, metadataFile, readOnly, forceOverwrite, timeout, todo, err,
                   ncalls, preExisting, nRemoved, claimers, session>>

\* checkOutfileExists: os.path.exists(self.dbFile) and the forceOverwrite test
PathExists(p) ==
    /\ pc[p] = "PathExists"
    /\ fsChecked' = fsChecked \cup {p}
    /\ IF dbFile.exists
       THEN IF ~forceOverwrite[p]
            THEN /\ metadata' = [metadata EXCEPT ![p] = Put(@, "dbError", ConflictMsg(DbPath))]
                 /\ pc' = [pc EXCEPT ![p] = "DumpMetadata"]
                 /\ ret' = [ret EXCEPT ![p] = "Raise"]
                 /\ UNCHANGED <<lockHolder, lockCounter>>
            ELSE /\ pc' = [pc EXCEPT ![p] = "Remove"]
                 /\ UNCHANGED <<metadata, ret, lockHolder, lockCounter>>
       ELSE /\ LeaveWith(p)
            /\ pc' = [pc EXCEPT ![p] = "Ready"]
            /\ UNCHANGED <<metadata, ret>>
    /\ UNCHANGED <<dbFile, metadataFile, readOnly, forceOverwrite, timeout, todo, err,
                   ncalls, preExisting, nRemoved, claimers, session>>

\* checkOutfileExists: os.remove(self.dbFile), then metadata['dbExists'] = True
Remove(p) ==
    /\ pc[p] = "Remove"
    /\ dbFile' = AbsentDb
    /\ nRemoved' = nRemoved + 1
    /\ metadata' = [metadata EXCEPT ![p] = Put(@, "dbExists", TRUE)]
    /\ pc' = [pc EXCEPT ![p] = "DumpMetadata"]
    /\ ret' = [ret EXCEPT ![p] = "Exit"]
    /\ UNCHANGED <<metadataFile, lockHolder, readOnly, forceOverwrite, timeout, lockCounter,
                   todo, err, ncalls, preExisting, fsChecked, claimers,
                   session>>

\* the conflict swallowed: the with block ends and the object is usable
RaiseSwallowed(p) ==
    /\ pc[p] = "Raise"
    /\ LeaveWith(p)
    /\ pc' = [pc EXCEPT ![p] = "Ready"]
    /\ UNCHANGED <<dbFile, metadataFile, readOnly, forceOverwrite, timeout, metadata, ret,
                   todo, err, ncalls, history>>

\* checkOutfileExists: raise Exception(exception) after the error was dumped
Raise(p) ==
    /\ pc[p] = "Raise"
    /\ RaiseFrom(p, metadata[p]["dbError"])
    /\ UNCHANGED <<dbFile, metadataFile, readOnly, forceOverwrite, timeout, metadata, ret,
                   todo, ncalls, history>>

\* checkOutfileExists: end of the with block after the overwrite branch
Exit(p) ==
    /\ pc[p] = "Exit"
    /\ LeaveWith(p)
    /\ pc' = [pc EXCEPT ![p] = "Ready"]
    /\ UNCHANGED <<dbFile, metadataFile, readOnly, forceOverwrite, timeout, metadata, ret,
                   todo, err, ncalls, history>>

\* the checkReadOnly wrapper: the wrapped method raises on a read-only object
CheckReadOnly(p) == readOnly[p]

\* dumpEpoch: connect (which creates the file) and replace each table
DumpEpochFile(f, data, epoch) ==
    [exists |-> TRUE, tables |-> WriteEpoch(f.tables, data, epoch)]

\* dump(data), called once by the profile driver on the object it constructed;
\* on a read-only object the wrapper raises
Dump(p, data) ==
    /\ pc[p] = "Ready"
    /\ IF CheckReadOnly(p)
       THEN /\ ncalls[p] = 0
            /\ ncalls' = [ncalls EXCEPT ![p] = 1]
            /\ err' = [err EXCEPT ![p] = ReadOnlyMsg]
            /\ UNCHANGED <<pc, todo>>
       ELSE /\ todo' = [todo EXCEPT ![p] = DumpCalls(data)]
            /\ pc' = [pc EXCEPT ![p] = IF Len(data) = 0 THEN "Done" ELSE "Dumping"]
            /\ UNCHANGED <<ncalls, err>>
    /\ UNCHANGED <<shared, readOnly, forceOverwrite, timeout, metadata, lockCounter, ret,
                   history>>

\* one dumpEpoch call made by dump
DumpEpoch(p) ==
    /\ pc[p] = "Dumping"
    /\ dbFile' = DumpEpochFile(dbFile, Head(todo[p]).data, Head(todo[p]).epoch)
    /\ todo' = [todo EXCEPT ![p] = Tail(@)]
    /\ pc' = [pc EXCEPT ![p] = IF Len(todo[p]) = 1 THEN "Done" ELSE "Dumping"]
    /\ UNCHANGED <<metadataFile, lockHolder, readOnly, forceOverwrite, timeout, metadata,
                   lockCounter, ret, err, ncalls, history>>

\* dumpEpoch called directly on a read-only object: the method is not wrapped
CallDumpEpoch(p, data, epoch) ==
    /\ pc[p] = "Ready"
    /\ readOnly[p]
    /\ ncalls[p] = 0
    /\ ncalls' = [ncalls EXCEPT ![p] = 1]
    /\ dbFile' = DumpEpochFile(dbFile, data, epoch)
    /\ err' = [err EXCEPT ![p] = NoErr]
    /\ UNCHANGED <<metadataFile, lockHolder, pc, readOnly, forceOverwrite, timeout, metadata,
                   lockCounter, ret, todo, history>>

\* dumpMetadata called on a read-only object: the wrapper raises
CallDumpMetadata(p) ==
    /\ pc[p] = "Ready"
    /\ CheckReadOnly(p)
    /\ ncalls[p] = 0
    /\ ncalls' = [ncalls EXCEPT ![p] = 1]
    /\ err' = [err EXCEPT ![p] = ReadOnlyMsg]
    /\ UNCHANGED <<shared, pc, readOnly, forceOverwrite, timeout, metadata, lockCounter,
                   ret, todo, history>>

\* loadMetadata called on a read-only object: the wrapper raises
CallLoadMetadata(p) ==
    /\ pc[p] = "Ready"
    /\ CheckReadOnly(p)
    /\ ncalls[p] = 0
    /\ ncalls' = [ncalls EXCEPT ![p] = 1]
    /\ err' = [err EXCEPT ![p] = ReadOnlyMsg]
    /\ UNCHANGED <<shared, pc, readOnly, forceOverwrite, timeout, metadata, lockCounter,
                   ret, todo, history>>

\* the steps of checkOutfileExists of one writer
Open(p) ==
    \/ Acquire(p)
    \/ DumpMetadata(p)
    \/ PickleDump(p)
    \/ ReadMetadata(p)
    \/ PathExists(p)
    \/ Remove(p)
    \/ Raise(p)
    \/ Exit(p)

Next ==
    \/ \E p \in Procs : Construct(p, TRUE, FALSE)
    \/ \E p \in Procs, fo \in BOOLEAN : Construct(p, FALSE, fo)
    \/ \E p \in Procs : Open(p)
    \/ \E p \in Procs : \E data \in EpochLists(p) : Dump(p, data)
    \/ \E p \in Procs : DumpEpoch(p)
    \/ \E p \in Procs : \E e \in Epochs(p), s \in {"", "_epoch:0"} : CallDumpEpoch(p, e, s)
    \/ \E p \in Procs : CallDumpMetadata(p)
    \/ \E p \in Procs : CallLoadMetadata(p)

Spec == Init /\ [][Next]_vars

\* a writer process dies; the OS drops the lock it holds
Crash(p) ==
    /\ pc[p] \in {"Acquire", "Waiting", "DumpMetadata", "PickleDump", "ReadMetadata",
                  "PathExists", "Remove", "Raise", "Exit"}
    /\ pc' = [pc EXCEPT ![p] = "Dead"]
    /\ lockCounter' = [lockCounter EXCEPT ![p] = 0]
    /\ lockHolder' = IF lockHolder = p THEN NoProc ELSE lockHolder
    /\ UNCHANGED <<dbFile, metadataFile, readOnly, forceOverwrite, timeout, metadata, ret,
                   todo, err, ncalls, history>>

NextCrash == Next \/ \E p \in Procs : Crash(p)

CrashSpec == Init /\ [][NextCrash]_vars

\* the operating system fails the write or the read of the metadata file
MetadataIOError(p) ==
    /\ pc[p] \in {"PickleDump", "ReadMetadata"}
    /\ RaiseFrom(p, OSErrorMsg)
    /\ UNCHANGED <<dbFile, metadataFile, readOnly, forceOverwrite, timeout, metadata, ret,
                   todo, ncalls, history>>

NextIO == Next \/ \E p \in Procs : MetadataIOError(p)

\* the profile driver constructs MetricsDataIO without a timeout argument
DriverInit == Init /\ timeout = DefaultTimeout

\* every process that is running keeps running; no process dies
FairSpec == DriverInit /\ [][NextIO]_vars /\ \A p \in Procs : WF_vars(Open(p))

\* ------------------------------------------- dump and load by one user
\* the process that calls dump and load on an object it opened as a writer
User == CHOOSE p \in Procs : \A q \in Procs : p <= q

\* DEV_GPU_UTIL as collected, in percent
PctSamples == {0, 50, 100}

GpuRow(v) == [gpuId |-> 0, DEV_GPU_UTIL |-> v, DEV_FB_USED |-> v + 100]

\* what getCollectedData hands to dump: one table per metric group, with and
\* without a DEV_GPU_UTIL column, of one or more rows
SampleEpochs ==
    {[gpu |-> <<GpuRow(v)>>] : v \in PctSamples}
    \cup {[gpu |-> <<GpuRow(50), GpuRow(100)>>, job |-> <<[jobId |-> 100]>>]}

SampleLists == UNION {[1..k -> SampleEpochs] : k \in 0..MaxEpochs}

\* the database file the user finds: missing, written by somebody else, or
\* holding tables of an earlier dump under the names a new dump uses
StartFiles ==
    {AbsentDb,
     [exists |-> TRUE, tables |-> PreExistingTables],
     [exists |-> TRUE,
      tables |-> [gpu |-> <<[gpuId |-> 9, DEV_GPU_UTIL |-> [num |-> 1, den |-> 4],
                             DEV_FB_USED |-> 9]>>]]}

\* load: raise Exception(f"Database file {self.dbFile} does not exist!")
MissingMsg(path) == "Database file " \o path \o " does not exist!"

\* the object after a successful open as a writer of a path whose record has
\* dbExists = True
DumpInit ==
    /\ dbFile \in StartFiles
    /\ metadataFile = Pickled(Put(EmptyDict, "dbExists", TRUE))
    /\ lockHolder = NoProc
    /\ pc = [p \in Procs |-> IF p = User THEN "Ready" ELSE "Unopened"]
    /\ readOnly = [p \in Procs |-> p # User]
    /\ forceOverwrite = [p \in Procs |-> FALSE]
    /\ timeout = DefaultTimeout
    /\ metadata = [p \in Procs |->
                     IF p = User THEN Put(EmptyDict, "dbExists", TRUE) ELSE EmptyDict]
    /\ lockCounter = [p \in Procs |-> 0]
    /\ ret = [p \in Procs |-> "none"]
    /\ todo = [p \in Procs |-> <<>>]
    /\ err = [p \in Procs |-> NoErr]
    /\ ncalls = [p \in Procs |-> 0]
    /\ preExisting = dbFile.exists
    /\ nRemoved = 0
    /\ fsChecked = {}
    /\ claimers = {}
    /\ given = <<>>
    /\ start = dbFile
    /\ once = AbsentDb
    /\ loaded = EmptyDict
    /\ driver = "function"
    /\ stage = [p \in Procs |-> "storage"]
    /\ profiler = [p \in Procs |-> "none"]

\* the user's first dump(data)
DumpFirst(p, data) ==
    /\ pc[p] = "Ready"
    /\ ~CheckReadOnly(p)
    /\ ncalls[p] = 0
    /\ ncalls' = [ncalls EXCEPT ![p] = 1]
    /\ given' = data
    /\ todo' = [todo EXCEPT ![p] = DumpCalls(data)]
    /\ pc' = [pc EXCEPT ![p] = IF Len(data) = 0 THEN "Done" ELSE "Dumping"]
    /\ UNCHANGED <<shared, readOnly, forceOverwrite, timeout, metadata, lockCounter, ret,
                   err, preExisting, nRemoved, fsChecked, claimers, start, once, loaded,
                   driver, stage, profiler>>

\* the user calls dump a second time with the same data
DumpAgain(p) ==
    /\ pc[p] = "Done"
    /\ ~CheckReadOnly(p)
    /\ ncalls[p] = 1
    /\ ncalls' = [ncalls EXCEPT ![p] = 2]
    /\ once' = dbFile
    /\ todo' = [todo EXCEPT ![p] = DumpCalls(given)]
    /\ pc' = [pc EXCEPT ![p] = IF Len(given) = 0 THEN "Done" ELSE "Dumping"]
    /\ UNCHANGED <<shared, readOnly, forceOverwrite, timeout, metadata, lockCounter, ret,
                   err, preExisting, nRemoved, fsChecked, claimers, given, start, loaded,
                   driver, stage, profiler>>

\* a load that returns the first row of each table only
LoadTablesFirstRow(f) == [table \in DOMAIN f.tables |-> <<f.tables[table][1]>>]

\* load: the names from sqlite_master, then SELECT * FROM "name" for each
LoadTables(f) == [table \in DOMAIN f.tables |-> f.tables[table]]

\* load(): raises when the file is missing, else returns the dict of tables
Load(p) ==
    /\ pc[p] \in {"Ready", "Done"}
    /\ pc' = [pc EXCEPT ![p] = "Loaded"]
    /\ IF ~dbFile.exists
       THEN /\ err' = [err EXCEPT ![p] = MissingMsg(DbPath)]
            /\ UNCHANGED loaded
       ELSE /\ loaded' = LoadTables(dbFile)
            /\ err' = [err EXCEPT ![p] = NoErr]
    /\ UNCHANGED <<shared, readOnly, forceOverwrite, timeout, metadata, lockCounter, ret,
                   todo, ncalls, preExisting, nRemoved, fsChecked, claimers, given, start,
                   once, driver, stage, profiler>>

NextDump ==
    \/ \E data \in SampleLists : DumpFirst(User, data)
    \/ DumpEpoch(User)
    \/ DumpAgain(User)
    \/ Load(User)

DumpSpec == DumpInit /\ [][NextDump]_vars

\* ------------------------------------------------------ the profile driver
\* the two profile drivers of the repository: the function profile of AGI.py
\* and the method AGI.profile of AGI/AGI.py
Drivers == {"function", "class"}

\* a rank about to create its profiler, on a path nobody has opened
ProfileInit ==
    /\ dbFile \in {AbsentDb, [exists |-> TRUE, tables |-> PreExistingTables]}
    /\ metadataFile = AbsentMeta
    /\ lockHolder = NoProc
    /\ pc = [p \in Procs |-> "Unopened"]
    /\ readOnly = [p \in Procs |-> TRUE]
    /\ forceOverwrite = [p \in Procs |-> FALSE]
    /\ timeout = DefaultTimeout
    /\ metadata = [p \in Procs |-> EmptyDict]
    /\ lockCounter = [p \in Procs |-> 0]
    /\ ret = [p \in Procs |-> "none"]
    /\ todo = [p \in Procs |-> <<>>]
    /\ err = [p \in Procs |-> NoErr]
    /\ ncalls = [p \in Procs |-> 0]
    /\ preExisting = dbFile.exists
    /\ nRemoved = 0
    /\ fsChecked = {}
    /\ claimers = {}
    /\ given = <<>>
    /\ start = dbFile
    /\ once = AbsentDb
    /\ loaded = EmptyDict
    /\ driver \in Drivers
    /\ stage = [p \in Procs |-> "start"]
    /\ profiler = [p \in Procs |-> "none"]

\* profiler = GPUMetricsProfiler(...): the object holds the DCGM context for
\* as long as it lives
CreateProfiler(p) ==
    /\ stage[p] = "start"
    /\ stage' = [stage EXCEPT ![p] = "created"]
    /\ profiler' = [profiler EXCEPT ![p] = "open"]
    /\ UNCHANGED <<shared, pc, readOnly, forceOverwrite, timeout, metadata, lockCounter,
                   ret, todo, err, ncalls, preExisting, nRemoved, fsChecked, claimers,
                   given, start, once, loaded, driver>>

\* the workload: profiler.run (and, in the function driver, the open of the
\* script file) returns, or raises; nothing in the driver catches the
\* exception or releases the profiler on the way out
RunWorkload(p, ok) ==
    /\ stage[p] = "created"
    /\ stage' = [stage EXCEPT ![p] = IF ok THEN "ran" ELSE "failed"]
    /\ UNCHANGED <<shared, pc, readOnly, forceOverwrite, timeout, metadata, lockCounter,
                   ret, todo, err, ncalls, preExisting, nRemoved, fsChecked, claimers,
                   given, start, once, loaded, driver, profiler>>

\* profiler.getCollectedData()
GetCollectedData(p) ==
    /\ stage[p] = "ran"
    /\ stage' = [stage EXCEPT ![p] = "collected"]
    /\ UNCHANGED <<shared, pc, readOnly, forceOverwrite, timeout, metadata, lockCounter,
                   ret, todo, err, ncalls, preExisting, nRemoved, fsChecked, claimers,
                   given, start, once, loaded, driver, profiler>>

\* del profiler, which only AGI.profile has: the DCGM context is destroyed
DelProfiler(p) ==
    /\ driver = "class"
    /\ stage[p] = "collected"
    /\ stage' = [stage EXCEPT ![p] = "deleted"]
    /\ profiler' = [profiler EXCEPT ![p] = "closed"]
    /\ UNCHANGED <<shared, pc, readOnly, forceOverwrite, timeout, metadata, lockCounter,
                   ret, todo, err, ncalls, preExisting, nRemoved, fsChecked, claimers,
                   given, start, once, loaded, driver>>

\* IO = MetricsDataIO(output_file, readOnly=False, ...): __init__ up to the
\* lock, reached after del profiler in AGI.profile and right after
\* getCollectedData in the function profile
OpenStorage(p, fo) ==
    /\ stage[p] = IF driver = "class" THEN "deleted" ELSE "collected"
    /\ stage' = [stage EXCEPT ![p] = "storage"]
    /\ pc[p] = "Unopened"
    /\ readOnly' = [readOnly EXCEPT ![p] = FALSE]
    /\ forceOverwrite' = [forceOverwrite EXCEPT ![p] = fo]
    /\ metadata' = [metadata EXCEPT ![p] = EmptyDict]
    /\ pc' = [pc EXCEPT ![p] = "Acquire"]
    /\ UNCHANGED <<shared, timeout, lockCounter, ret, todo, err, ncalls, preExisting,
                   nRemoved, fsChecked, claimers, given, start, once, loaded, driver,
                   profiler>>

NextProfile ==
    \/ \E p \in Procs : CreateProfiler(p)
    \/ \E p \in Procs, ok \in BOOLEAN : RunWorkload(p, ok)
    \/ \E p \in Procs : GetCollectedData(p)
    \/ \E p \in Procs : DelProfiler(p)
    \/ \E p \in Procs, fo \in BOOLEAN : OpenStorage(p, fo)
    \/ \E p \in Procs : Open(p)
    \/ \E p \in Procs : \E data \in EpochLists(p) : Dump(p, data)
    \/ \E p \in Procs : DumpEpoch(p)

ProfileSpec == ProfileInit /\ [][NextProfile]_vars

\* the driver of p has left profile: by the exception of the workload, by the
\* exception of MetricsDataIO, or by return 0 after dump
Exited(p) == stage[p] = "failed" \/ pc[p] \in {"Rejected", "Done"}

TypeOK ==
    /\ lockHolder \in Procs \cup {NoProc}
    /\ \A p \in Procs : lockCounter[p] \in 0..2

\* ------------------------------------------------------------ vocabulary
Writers == {p \in Procs : pc[p] # "Unopened" /\ ~readOnly[p]}

Validating(p) ==
    pc[p] \in {"Acquire", "Waiting", "DumpMetadata", "PickleDump", "ReadMetadata",
               "PathExists", "Remove", "Raise", "Exit"}

\* between the acquire and the release of the outer with block
InCritical(p) == Validating(p) /\ pc[p] \notin {"Acquire", "Waiting"}

\* the writer's open succeeded (it may have gone on to dump)
IsReady(p) == ~readOnly[p] /\ pc[p] \in {"Ready", "Dumping", "Done"}

Stored == metadataFile.content

\* some step of process p
Moved(p) == pc'[p] # pc[p] \/ ncalls'[p] # ncalls[p] \/ todo'[p] # todo[p]

\* C1: with no pre-existing file and only writers without overwrite, no
\* writer is rejected, and once a writer is Ready exactly one process has
\* persisted dbExists = true and every other Ready writer got there without
\* consulting os.path.exists on the output file.
C1_OneClaimer ==
    (~preExisting /\ Writers = {p \in Procs : pc[p] # "Unopened"}
       /\ \A p \in Writers : ~forceOverwrite[p])
    => \A p \in Writers :
         /\ pc[p] # "Rejected"
         /\ IsReady(p) =>
              /\ Cardinality(claimers) = 1
              /\ GetDbExists(Stored)
              /\ (p \notin claimers => p \notin fsChecked)

\* C2: the output file is removed at most once, and never once some writer
\* has finished its Validating phase or written a table with dump.
C2_NoLateRemoval ==
    [][(dbFile.exists /\ ~dbFile'.exists)
         => (nRemoved = 0 /\ \A q \in Procs : ~IsReady(q))]_vars

\* C3: if the file pre-exists and every writer opens without overwrite, no
\* writer becomes Ready and every rejected writer raises the one message
\* stored in dbError of the persisted record.
C3_SameConflict ==
    (preExisting /\ \A p \in Writers : ~forceOverwrite[p])
    => \A p \in Writers :
         /\ ~IsReady(p)
         /\ pc[p] = "Rejected" =>
              /\ metadataFile.state = "pickled"
              /\ GetDbError(Stored)
              /\ err[p] = Stored["dbError"]
              /\ \A q \in Writers : pc[q] = "Rejected" => err[q] = err[p]

C3_Witness ==
    /\ preExisting
    /\ Writers = Procs
    /\ \A p \in Procs : ~forceOverwrite[p] /\ pc[p] = "Rejected"
                        /\ err[p] = ConflictMsg(DbPath)

\* C4: a process between the acquire and the release of checkOutfileExists
\* holds the lock, so no two writers are inside that section together; the
\* nested acquire/release of dumpMetadata does not free the lock early.
C4_MutualExclusion ==
    \A p \in Procs :
        InCritical(p) =>
            /\ lockHolder = p
            /\ lockCounter[p] >= 1
            /\ \A q \in Procs \ {p} : ~InCritical(q)

C4_Witness ==
    \E p \in Procs, q \in Procs :
        /\ pc[p] = "Exit"
        /\ claimers = {p}
        /\ pc[q] = "Waiting"

\* C5: with timeout = 0 a writer that finds the lock held fails with
\* LockTimeout at once: it is never left waiting for the lock.
C5_TimeoutBoundsAcquire ==
    \A p \in Procs :
        timeout = 0 => pc[p] # "Waiting"

\* C6: when writers may die during Validating, every surviving writer whose
\* open has failed was rejected with a dbError message that is committed in
\* the persisted record.
C6_CrashConsistent ==
    \A p \in Procs :
        pc[p] = "Rejected" =>
            /\ metadataFile.state = "pickled"
            /\ GetDbError(Stored)
            /\ err[p] = Stored["dbError"]

\* C7: a writer that is Ready or Rejected holds no lock, whichever way its
\* open ended, and with no crash and fair scheduling every writer that
\* starts Validating reaches Ready or Rejected: from any state, a later
\* state has every process either not yet opened or past its open, as Ready
\* (possibly dumping or done) or Rejected.
C7_GuaranteedRelease ==
    /\ [](\A p \in Procs :
             pc[p] \in {"Ready", "Dumping", "Done", "Rejected"}
                => (lockHolder # p /\ lockCounter[p] = 0))
    /\ []<>(\A p \in Procs :
               pc[p] \in {"Unopened", "Ready", "Dumping", "Done", "Rejected"})

C7_Witness ==
    \E p \in Procs, q \in Procs :
        /\ pc[p] = "Rejected"
        /\ err[p] = OSErrorMsg
        /\ InCritical(q)

\* C8: a writer that detected the path conflict no longer holds the lock only
\* once the persisted record carries the dbError it raises.
C8_CommitBeforeRelease ==
    /\ \A p \in Procs :
          (ret[p] = "Raise" /\ lockHolder # p) =>
              /\ metadataFile.state = "pickled"
              /\ GetDbError(Stored)
    /\ (lockHolder = NoProc
          /\ \E p \in Procs : pc[p] = "Rejected" /\ err[p] = ConflictMsg(DbPath))
       => (metadataFile.state = "pickled" /\ GetDbError(Stored))

C8_Witness ==
    \E p \in Procs :
        /\ ret[p] = "Raise"
        /\ pc[p] = "Rejected"
        /\ err[p] = ConflictMsg(DbPath)
        /\ lockHolder = NoProc
        /\ \E q \in Procs : pc[q] = "Acquire"

\* C9: every step of a writer that changes the output file or the metadata
\* file is taken while that writer holds the lock.
C9_MutationsUnderLock ==
    [][\A p \in Procs :
          (~readOnly[p] /\ Moved(p)
             /\ (dbFile' # dbFile \/ metadataFile' # metadataFile))
          => lockHolder = p]_vars

\* C10: every call of dump, dumpEpoch, dumpMetadata or loadMetadata on a
\* read-only object raises the read-only error and leaves the output file,
\* the metadata file and the lock as they were.
C10_ReadOnlyViolation ==
    [][\A p \in Procs :
          (readOnly[p] /\ pc[p] = "Ready" /\ ncalls'[p] # ncalls[p])
          => (err'[p] = ReadOnlyMsg /\ UNCHANGED <<dbFile, metadataFile, lockHolder>>)]_vars

\* C11: opening a path read-only skips the validation: the step that
\* constructs a read-only object is possible whenever the object is unopened,
\* ends Ready without an exception and leaves the database file, the
\* metadata file and the lock as they were; and after every step each
\* read-only object is Ready, not validating, and does not hold the lock.
C11_ReadOnlySkipsValidation ==
    [][\A p \in Procs :
          /\ pc[p] = "Unopened" => ENABLED Construct(p, TRUE, FALSE)
          /\ (pc'[p] # "Unopened" /\ readOnly'[p]) =>
                /\ pc'[p] = "Ready"
                /\ lockHolder' # p
                /\ lockCounter'[p] = 0
          /\ (pc[p] = "Unopened" /\ pc'[p] # "Unopened" /\ readOnly'[p]) =>
                /\ err'[p] = NoErr
                /\ UNCHANGED <<shared, nRemoved, fsChecked, claimers>>]_vars

\* a read-only object is open while a writer holds the lock over a record
\* that carries dbError
C11_Witness ==
    \E p, q \in Procs :
        /\ readOnly[p] /\ pc[p] = "Ready"
        /\ ~readOnly[q] /\ InCritical(q) /\ lockHolder = q
        /\ metadataFile.state = "pickled" /\ GetDbError(Stored)

\* C17: the stored error is tested before anything else: the step of a
\* writer that loads a record carrying dbError rejects it with exactly the
\* stored message, whatever its overwrite flag and whether or not the file
\* exists, and changes neither the database file nor the metadata file; and
\* after every step, while the record carries dbError no writer is at the
\* existence test, at the removal or at a rewrite of the record.
C17_StoredErrorFirst ==
    [][/\ (metadataFile'.state = "pickled" /\ GetDbError(metadataFile'.content)) =>
            \A p \in Procs :
                pc'[p] \notin {"PathExists", "Remove", "DumpMetadata", "PickleDump", "Exit"}
       /\ \A p \in Procs :
            (/\ pc[p] = "ReadMetadata" /\ pc'[p] # "ReadMetadata"
             /\ metadataFile.state = "pickled" /\ GetDbError(Stored)) =>
              /\ pc'[p] = "Rejected"
              /\ err'[p] = Stored["dbError"]
              /\ UNCHANGED <<dbFile, metadataFile, nRemoved, fsChecked>>]_vars

\* a writer that asked for overwrite was rejected with the stored message
\* without having detected the conflict itself
C17_Witness ==
    \E p \in Procs :
        /\ ~readOnly[p] /\ forceOverwrite[p]
        /\ pc[p] = "Rejected" /\ p \notin fsChecked
        /\ GetDbError(Stored) /\ err[p] = Stored["dbError"]
        /\ dbFile.exists

\* C18: the persisted record only grows: a record that carries dbError or
\* dbExists = true is never written again, and a process that truncates an
\* existing record for a rewrite holds a record that has every stored key
\* with its stored value and is not empty.
C18_RecordOnlyGrows ==
    [][metadataFile.state = "pickled" =>
         /\ (GetDbError(Stored) \/ GetDbExists(Stored)) => metadataFile' = metadataFile
         /\ metadataFile' # metadataFile =>
              \E p \in Procs :
                  /\ pc[p] = "DumpMetadata" /\ pc'[p] = "PickleDump"
                  /\ metadata[p] # EmptyDict
                  /\ \A k \in DOMAIN Stored :
                         k \in DOMAIN metadata[p] /\ metadata[p][k] = Stored[k]]_vars

\* the record carries dbExists = true and a writer that never tested the
\* file is Ready: it loaded the existing record and left it as it was
C18_Witness ==
    /\ metadataFile.state = "pickled" /\ GetDbExists(Stored)
    /\ \E p \in Procs : IsReady(p) /\ p \notin fsChecked /\ p \notin claimers

\* C19: neither the persisted record nor the record a writer holds in memory
\* has both dbExists = true and dbError set.
C19_ExistsXorError ==
    /\ ~(GetDbExists(Stored) /\ GetDbError(Stored))
    /\ \A p \in Procs : ~(GetDbExists(metadata[p]) /\ GetDbError(metadata[p]))

\* an overwriting writer claimed the path, the file was written again, and a
\* writer without overwrite opened the path after the claim
C19_Witness ==
    \E p, q \in Procs :
        /\ forceOverwrite[p] /\ p \in claimers
        /\ ~readOnly[q] /\ ~forceOverwrite[q] /\ pc[q] = "Ready" /\ q \notin fsChecked
        /\ dbFile.exists /\ nRemoved > 0

\* C20: when the file existed at the start and every opened object is a
\* writer without overwrite, the file is never removed, its tables stay as
\* they were, and no writer gets past its open.
C20_ExistingFileUntouched ==
    (/\ preExisting
     /\ Writers = {p \in Procs : pc[p] # "Unopened"}
     /\ \A p \in Writers : ~forceOverwrite[p])
    => /\ dbFile = [exists |-> TRUE, tables |-> PreExistingTables]
       /\ nRemoved = 0
       /\ \A p \in Writers : pc[p] \notin {"Ready", "Dumping", "Done", "Remove"}

\* every process opened the existing file as a writer without overwrite and
\* every one of them was rejected
C20_Witness ==
    /\ preExisting /\ dbFile.exists /\ nRemoved = 0
    /\ \A p \in Procs : ~readOnly[p] /\ ~forceOverwrite[p] /\ pc[p] = "Rejected"
    /\ \E p \in Procs : p \notin fsChecked

\* C12: after dump(data) the file is as it was when data is empty; else it
\* exists and holds, besides the tables it had under other names, exactly
\* one table per table of the only epoch under the table's own name, or for
\* several epochs one table <name>_epoch:<i> per table of epoch i, counted
\* from 0, holding the rows of that epoch.
C12_DumpNaming ==
    (pc[User] = "Done" /\ ncalls[User] = 1) =>
        LET k == Len(given)
            name(t, i) == IF k = 1 THEN t ELSE t \o "_epoch:" \o ToString(i - 1)
            written == UNION {{name(t, i) : t \in DOMAIN given[i]} : i \in 1..k}
        IN  /\ k = 0 => dbFile = start
            /\ k > 0 => dbFile.exists
            /\ DOMAIN dbFile.tables = (DOMAIN start.tables) \cup written
            /\ \A n \in (DOMAIN start.tables) \ written :
                   dbFile.tables[n] = start.tables[n]
            /\ \A i \in 1..k : \A t \in DOMAIN given[i] :
                   /\ Len(dbFile.tables[name(t, i)]) = Len(given[i][t])
                   /\ \A r \in 1..Len(given[i][t]) :
                          \A c \in (DOMAIN given[i][t][r]) \ {"DEV_GPU_UTIL"} :
                              dbFile.tables[name(t, i)][r][c] = given[i][t][r][c]

\* a dump of several different epochs, one of them with two tables, into a
\* file that already had a table, has finished
C12_Witness ==
    /\ pc[User] = "Done" /\ ncalls[User] = 1
    /\ Len(given) > 1 /\ given[1] # given[2]
    /\ \E i \in 1..Len(given) : "job" \in DOMAIN given[i]
    /\ start.exists
    /\ "gpu_epoch:0" \in DOMAIN dbFile.tables /\ "job_epoch:1" \in DOMAIN dbFile.tables

\* C13: dumping the same data a second time leaves the file as the first
\* dump left it.
C13_DumpIdempotent ==
    (pc[User] = "Done" /\ ncalls[User] = 2) => dbFile = once

\* the second dump of a non-empty list with a rescaled column has finished
C13_Witness ==
    /\ pc[User] = "Done" /\ ncalls[User] = 2
    /\ Len(given) > 0
    /\ once.exists /\ dbFile.exists
    /\ \E n \in DOMAIN dbFile.tables : Len(dbFile.tables[n]) = 2

\* C14: in every table a dump wrote, a DEV_GPU_UTIL value v is stored as the
\* fraction v/100, between 0 and 1, with 100 stored as 1 and 0 as 0, and
\* every other column holds the value it was given.
C14_GpuUtilFraction ==
    (pc[User] = "Done" /\ ncalls[User] = 1) =>
        \A i \in 1..Len(given) : \A t \in DOMAIN given[i] :
            LET n == IF Len(given) = 1 THEN t ELSE t \o "_epoch:" \o ToString(i - 1)
            IN  \A r \in 1..Len(given[i][t]) :
                    LET in == given[i][t][r]
                        out == dbFile.tables[n][r]
                    IN  /\ DOMAIN out = DOMAIN in
                        /\ \A c \in DOMAIN in :
                               IF c = "DEV_GPU_UTIL"
                               THEN /\ out[c].den > 0
                                    /\ out[c].num * 100 = in[c] * out[c].den
                                    /\ 0 <= out[c].num /\ out[c].num <= out[c].den
                                    /\ in[c] = 100 => out[c] = [num |-> 1, den |-> 1]
                                    /\ in[c] = 0 => out[c] = [num |-> 0, den |-> 1]
                               ELSE out[c] = in[c]

\* a dump stored 100 percent, 0 percent and a value in between, next to a
\* column that holds 100 and is not rescaled
C14_Witness ==
    /\ pc[User] = "Done" /\ ncalls[User] = 1
    /\ \E n, m \in DOMAIN dbFile.tables :
          /\ n # m
          /\ "DEV_FB_USED" \in DOMAIN dbFile.tables[n][1]
          /\ "DEV_FB_USED" \in DOMAIN dbFile.tables[m][1]
          /\ dbFile.tables[n][1]["DEV_GPU_UTIL"] = [num |-> 0, den |-> 1]
          /\ dbFile.tables[n][1]["DEV_FB_USED"] = 100
          /\ Len(dbFile.tables[m]) = 2
          /\ dbFile.tables[m][1]["DEV_GPU_UTIL"] = [num |-> 1, den |-> 2]
          /\ dbFile.tables[m][2]["DEV_GPU_UTIL"] = [num |-> 1, den |-> 1]

\* C15: load returns one entry per table of the file, keyed by the table's
\* stored name and holding the table's rows, raises when the file is missing,
\* and leaves the file as it was.
C15_LoadExact ==
    /\ []((pc[User] = "Loaded" /\ err[User] = NoErr) =>
            /\ dbFile.exists
            /\ DOMAIN loaded = DOMAIN dbFile.tables
            /\ \A n \in DOMAIN loaded : loaded[n] = dbFile.tables[n])
    /\ [][(pc[User] # "Loaded" /\ pc'[User] = "Loaded") =>
            /\ dbFile' = dbFile
            /\ ~dbFile.exists => err'[User] = MissingMsg(DbPath) /\ loaded' = loaded]_vars

\* load returned the tables of two epochs under their own names, with
\* different rows
C15_Witness ==
    /\ pc[User] = "Loaded" /\ err[User] = NoErr
    /\ "gpu_epoch:0" \in DOMAIN loaded /\ "gpu_epoch:1" \in DOMAIN loaded
    /\ loaded["gpu_epoch:0"] # loaded["gpu_epoch:1"]
    /\ \E n \in DOMAIN loaded : Len(loaded[n]) = 2

\* C16: the profiler of a rank is closed whenever its profile driver has
\* exited, the exit by a failed run included, and whenever the driver has
\* gone on to open the storage.
C16_ProfilerClosed ==
    \A p \in Procs :
        (Exited(p) \/ stage[p] = "storage") => profiler[p] = "closed"
====
